---- MODULE Spec2Model ----
(***************************************************************************)
(* Model of expense_tracker.py: the SQLite ledger (table expenses), the    *)
(* ten menu operations of main(), the pandas aggregations they compute and *)
(* the page layout of export_to_pdf.                                       *)
(*                                                                         *)
(* Text is modelled as sequences of one-character strings, compared by the *)
(* code points in Ord, so that the store's ORDER BY on the TEXT column     *)
(* date, strptime's and to_datetime's parsing and groupby's key order are  *)
(* computed and not assumed.  Amounts are exact integers (currency units); *)
(* float() is modelled on signed decimal integer literals.                 *)
(***************************************************************************)
EXTENDS Integers, Sequences, FiniteSets, TLC

VARIABLES ledger, sqlite_sequence, running, out, canvas

vars == <<ledger, sqlite_sequence, running, out, canvas>>

----------------------------------------------------------------------------
(* Bounds of the model *)

MaxRecords == 2
MaxRows == 58
MaxCats == 41

(* Program constants *)

MONTHLY_BUDGET == 5000
PageHeight == 792
PageWidth == 612

----------------------------------------------------------------------------
(* Text *)

Ord ==
    (" " :> 32) @@ ("+" :> 43) @@ ("-" :> 45) @@
    ("0" :> 48) @@ ("1" :> 49) @@ ("2" :> 50) @@ ("3" :> 51) @@ ("4" :> 52) @@
    ("5" :> 53) @@ ("6" :> 54) @@ ("7" :> 55) @@ ("8" :> 56) @@ ("9" :> 57) @@
    ("F" :> 70) @@ ("U" :> 85) @@
    ("a" :> 97) @@ ("b" :> 98) @@ ("c" :> 99) @@ ("d" :> 100) @@ ("e" :> 101) @@
    ("f" :> 102) @@ ("g" :> 103) @@ ("i" :> 105) @@ ("n" :> 110) @@
    ("o" :> 111) @@ ("r" :> 114) @@ ("t" :> 116) @@ ("z" :> 122)

Min(a, b) == IF a <= b THEN a ELSE b

Max(a, b) == IF a >= b THEN a ELSE b

\* a and b agree before position i: whether a < b is decided from position i on
RECURSIVE LexLessFrom(_, _, _)
LexLessFrom(a, b, i) ==
    IF i > Len(b) THEN FALSE
    ELSE IF i > Len(a) THEN TRUE
    ELSE IF a[i] # b[i] THEN Ord[a[i]] < Ord[b[i]]
    ELSE LexLessFrom(a, b, i + 1)

\* a < b as texts: the first differing character decides, a proper prefix is less
LexLess(a, b) == LexLessFrom(a, b, 1)

IsDigit(c) == Ord[c] >= 48 /\ Ord[c] <= 57

AllDigits(s) == \A i \in 1..Len(s) : IsDigit(s[i])

\* the number the first n characters of s, all digits, denote
RECURSIVE ToIntUpTo(_, _)
ToIntUpTo(s, n) ==
    IF n = 0 THEN 0 ELSE 10 * ToIntUpTo(s, n - 1) + (Ord[s[n]] - 48)

ToInt(s) == ToIntUpTo(s, Len(s))

\* the first position at or after i that holds no blank
RECURSIVE SkipBlanks(_, _)
SkipBlanks(s, i) ==
    IF i <= Len(s) /\ s[i] = " " THEN SkipBlanks(s, i + 1) ELSE i

\* the last position at or before i that holds no blank
RECURSIVE SkipBlanksBack(_, _)
SkipBlanksBack(s, i) ==
    IF i >= 1 /\ s[i] = " " THEN SkipBlanksBack(s, i - 1) ELSE i

\* str.strip()
Strip(s) == SubSeq(s, SkipBlanks(s, 1), SkipBlanksBack(s, Len(s)))

\* float(text): ok is FALSE where float raises ValueError
ParseFloat(s) ==
    LET signed == s # <<>> /\ s[1] \in {"-", "+"}
        digits == IF signed THEN Tail(s) ELSE s
    IN  IF digits # <<>> /\ AllDigits(digits)
        THEN [ok |-> TRUE,
              val |-> IF signed /\ s[1] = "-" THEN 0 - ToInt(digits) ELSE ToInt(digits)]
        ELSE [ok |-> FALSE, val |-> 0]

----------------------------------------------------------------------------
(* What the user can type, and the clock *)

Uncategorized == <<"U", "n", "c", "a", "t", "e", "g", "o", "r", "i", "z", "e", "d">>

Food == <<"F", "o", "o", "d">>

AmountInputs ==
    { <<"-", "1", "0", "0">>, <<"5", "1", "0", "0">>, <<"a", "b", "c">> }

CategoryInputs == { <<" ">>, Food, <<"f", "o", "o", "d">> }

DateInputs ==
    { <<>>,
      <<"2", "0", "2", "4", "-", "2", "-", "1">>,
      <<"2", "0", "2", "3", "-", "1", "0", "-", "1">>,
      <<"2", "0", "2", "4", "-", "0", "2", "-", "3", "0">> }

DescriptionInputs == { <<"t", "e", "a", " ">> }

\* datetime.now()
Today == [ok |-> TRUE, y |-> 2024, m |-> 10, d |-> 5]

----------------------------------------------------------------------------
(* Dates *)

IsLeap(y) == (y % 4 = 0 /\ y % 100 # 0) \/ y % 400 = 0

DaysInMonth(y, m) ==
    IF m = 2 THEN (IF IsLeap(y) THEN 29 ELSE 28)
    ELSE IF m \in {4, 6, 9, 11} THEN 30 ELSE 31

\* position of the first "-" of s at or after position from, 0 when there is none
RECURSIVE FindDash(_, _)
FindDash(s, from) ==
    IF from > Len(s) THEN 0
    ELSE IF s[from] = "-" THEN from ELSE FindDash(s, from + 1)

\* datetime.strptime(s, "%Y-%m-%d"): %Y is four digits, %m is 1[0-2]|0[1-9]|[1-9],
\* %d is 3[01]|[12]\d|0[1-9]|[1-9]| [1-9], then the date must exist
Strptime(s) ==
    LET bad == [ok |-> FALSE, y |-> 0, m |-> 0, d |-> 0]
        dash2 == FindDash(s, 6)
    IN  IF Len(s) < 8 \/ ~AllDigits(SubSeq(s, 1, 4)) \/ s[5] # "-" \/ dash2 = 0
        THEN bad
        ELSE
            LET ms == SubSeq(s, 6, dash2 - 1)
                ds0 == SubSeq(s, dash2 + 1, Len(s))
                ds == IF Len(ds0) = 2 /\ ds0[1] = " " THEN Tail(ds0) ELSE ds0
                y == ToInt(SubSeq(s, 1, 4))
            IN  IF /\ Len(ms) \in {1, 2} /\ AllDigits(ms)
                   /\ Len(ds0) \in {1, 2} /\ AllDigits(ds)
                   /\ y >= 1
                   /\ ToInt(ms) >= 1 /\ ToInt(ms) <= 12
                   /\ ToInt(ds) >= 1 /\ ToInt(ds) <= DaysInMonth(y, ToInt(ms))
                THEN [ok |-> TRUE, y |-> y, m |-> ToInt(ms), d |-> ToInt(ds)]
                ELSE bad

\* Timestamp.to_period("M"): the year and month
ToPeriodM(t) == <<t.y, t.m>>

PeriodLess(p, q) == p[1] < q[1] \/ (p[1] = q[1] /\ p[2] < q[2])

DigitChars == <<"0", "1", "2", "3", "4", "5", "6", "7", "8", "9">>

\* n in decimal, zero-padded to width digits (width <= 4)
Pad(n, width) ==
    [i \in 1..width |->
        LET e == width - i
            p == IF e = 0 THEN 1 ELSE IF e = 1 THEN 10 ELSE IF e = 2 THEN 100 ELSE 1000
        IN  DigitChars[((n \div p) % 10) + 1]]

\* Period.astype(str): "YYYY-MM"
PeriodStr(p) == Pad(p[1], 4) \o <<"-">> \o Pad(p[2], 2)

\* datetime.now().strftime("%Y-%m-%d")
Strftime(t) == Pad(t.y, 4) \o <<"-">> \o Pad(t.m, 2) \o <<"-">> \o Pad(t.d, 2)

\* the date texts that can be typed or stored, each with what strptime makes of it
\* (computed once)
KnownDates == {Strip(d) : d \in DateInputs} \cup {Strftime(Today)}

StrptimeTable == [s \in KnownDates |-> Strptime(s)]

ParseDate(s) == IF s \in KnownDates THEN StrptimeTable[s] ELSE Strptime(s)

\* Variant of valid_date_yyyy_mm_dd that looks at the shape of the text only
valid_date_by_shape(date_str) == Len(date_str) >= 8 /\ FindDash(date_str, 1) = 5

valid_date_yyyy_mm_dd(date_str) == ParseDate(date_str).ok

\* pd.to_datetime(text): the calendar date the text denotes
ToDatetime(s) == ParseDate(s)

----------------------------------------------------------------------------
(* The store *)

RECURSIVE SumAmount(_)
SumAmount(rows) ==
    IF rows = <<>> THEN 0 ELSE Head(rows).amount + SumAmount(Tail(rows))

\* ORDER BY date DESC, id DESC: date is a TEXT column, compared as text
OrderedBefore(r, s) ==
    LexLess(s.date, r.date) \/ (r.date = s.date /\ r.id > s.id)

RECURSIVE InsertOrdered(_, _)
InsertOrdered(r, rows) ==
    IF rows = <<>> THEN <<r>>
    ELSE IF OrderedBefore(r, Head(rows)) THEN <<r>> \o rows
    ELSE <<Head(rows)>> \o InsertOrdered(r, Tail(rows))

RECURSIVE OrderBy(_)
OrderBy(rows) ==
    IF rows = <<>> THEN <<>> ELSE InsertOrdered(Head(rows), OrderBy(Tail(rows)))

\* SELECT ... FROM expenses ORDER BY date DESC, id DESC
fetch_all_df(table) == OrderBy(table)

MaxId(table) ==
    IF table = <<>> THEN 0
    ELSE CHOOSE n \in {table[i].id : i \in 1..Len(table)} :
            \A i \in 1..Len(table) : table[i].id <= n

\* INTEGER PRIMARY KEY AUTOINCREMENT: one more than the largest id ever used
\* Variant of NextRowId that hands out the highest id again
NextRowIdAgain(table, seq) == Max(MaxId(table), seq)

NextRowId(table, seq) == Max(MaxId(table), seq) + 1

\* INSERT INTO expenses (amount, category, date, description) VALUES (?, ?, ?, ?)
Insert(table, seq, amount, category, date_str, description) ==
    Append(table, [id |-> NextRowId(table, seq), amount |-> amount,
                   category |-> category, date |-> date_str,
                   description |-> description])

----------------------------------------------------------------------------
(* Aggregation *)

\* the month of a stored row: pd.to_datetime(df["date"]).dt.to_period("M")
MonthOf(r) == ToPeriodM(ToDatetime(r.date))

RECURSIVE SortTexts(_)
SortTexts(S) ==
    IF S = {} THEN <<>>
    ELSE LET least == CHOOSE k \in S : \A o \in S \ {k} : LexLess(k, o)
         IN  <<least>> \o SortTexts(S \ {least})

RECURSIVE SortPeriods(_)
SortPeriods(S) ==
    IF S = {} THEN <<>>
    ELSE LET least == CHOOSE k \in S : \A o \in S \ {k} : PeriodLess(k, o)
         IN  <<least>> \o SortPeriods(S \ {least})

\* Variant of SumWhere that leaves the first row of the snapshot out of the sum
RECURSIVE SumWhereAfterFirst(_, _, _, _)
SumWhereAfterFirst(col, df, key, i) ==
    IF i <= 1 THEN 0
    ELSE (IF col[i] = key THEN df[i].amount ELSE 0) + SumWhereAfterFirst(col, df, key, i - 1)

\* the amounts of the rows of df whose key, in column col, is key (rows 1..i)
RECURSIVE SumWhere(_, _, _, _)
SumWhere(col, df, key, i) ==
    IF i = 0 THEN 0
    ELSE (IF col[i] = key THEN df[i].amount ELSE 0) + SumWhere(col, df, key, i - 1)

\* groupby(...)["amount"].sum(): one entry per key, in the order of keys
GroupSum(col, df, keys) ==
    [k \in 1..Len(keys) |->
        [key |-> keys[k], amount |-> SumWhere(col, df, keys[k], Len(df))]]

Values(col) == {col[i] : i \in 1..Len(col)}

\* df["category"]
RECURSIVE CategoryColumn(_)
CategoryColumn(df) ==
    IF df = <<>> THEN <<>> ELSE <<Head(df).category>> \o CategoryColumn(Tail(df))

\* df["month"] = df["date"].dt.to_period("M")
RECURSIVE MonthColumn(_)
MonthColumn(df) ==
    IF df = <<>> THEN <<>> ELSE <<MonthOf(Head(df))>> \o MonthColumn(Tail(df))

\* df["month"] = df["date"].dt.to_period("M").astype(str)
RECURSIVE MonthStrColumn(_)
MonthStrColumn(df) ==
    IF df = <<>> THEN <<>>
    ELSE <<PeriodStr(MonthOf(Head(df)))>> \o MonthStrColumn(Tail(df))

\* df.groupby("category")["amount"].sum(): keys ascending
GroupByCategory(df) ==
    LET col == CategoryColumn(df) IN GroupSum(col, df, SortTexts(Values(col)))

\* df.groupby("month")["amount"].sum() on Period keys: keys ascending
GroupByMonth(df) ==
    LET col == MonthColumn(df) IN GroupSum(col, df, SortPeriods(Values(col)))

\* df.groupby("month")["amount"].sum().sort_index() on "YYYY-MM" text keys
GroupByMonthStr(df) ==
    LET col == MonthStrColumn(df) IN GroupSum(col, df, SortTexts(Values(col)))

IsDescending(q) ==
    \A i \in 1..Len(q) : \A j \in 1..Len(q) : i < j => q[i].amount >= q[j].amount

\* Variant of SortValuesDesc that leaves the groups in the order of their keys
SortValuesByKey(grouped) == {grouped}

\* sort_values(ascending=False) with the default kind "quicksort", which is not a
\* stable sort: every arrangement with the amounts descending is a possible result
SortValuesDesc(grouped) ==
    LET n == Len(grouped)
        perms == {p \in [1..n -> 1..n] : \A i \in 1..n : \E j \in 1..n : p[j] = i}
    IN  {q \in {[i \in 1..n |-> grouped[p[i]]] : p \in perms} : IsDescending(q)}

----------------------------------------------------------------------------
(* Budget alert *)

\* Variant of check_budget_alert_for_date that alerts at the budget itself
check_budget_alert_at_budget(table, date_str) ==
    LET when == ToDatetime(date_str)
        df == fetch_all_df(table)
    IN  IF ~when.ok \/ df = <<>>
        THEN [evaluated |-> FALSE, alert |-> FALSE]
        ELSE LET month == ToPeriodM(when)
                 total_month == SumAmount(SelectSeq(df, LAMBDA r : MonthOf(r) = month))
             IN  [evaluated |-> TRUE, alert |-> total_month >= MONTHLY_BUDGET]

\* check_budget_alert_for_date: evaluated is FALSE where the function returns early
check_budget_alert_for_date(table, date_str) ==
    LET when == ToDatetime(date_str)
        df == fetch_all_df(table)
    IN  IF ~when.ok \/ df = <<>>
        THEN [evaluated |-> FALSE, alert |-> FALSE]
        ELSE LET month == ToPeriodM(when)
                 total_month == SumAmount(SelectSeq(df, LAMBDA r : MonthOf(r) = month))
             IN  [evaluated |-> TRUE, alert |-> total_month > MONTHLY_BUDGET]

----------------------------------------------------------------------------
(* The menu operations.  out is what the last operation reported: the       *)
(* operation, how it ended, what it read, whether the budget alert was      *)
(* evaluated and raised, the rows and aggregates it showed or wrote and the *)
(* files it produced.                                                        *)

Quiet ==
    [op |-> "none", status |-> "ok", input |-> <<>>,
     evaluated |-> FALSE, alert |-> FALSE,
     rows |-> <<>>, months |-> <<>>, cats |-> <<>>, total |-> 0,
     composed |-> FALSE, files |-> {}]

\* the month table of monthly_summary: Period keys ascending, shown as "YYYY-MM"
SummaryTable(df) ==
    LET g == GroupByMonth(df)
    IN  [k \in 1..Len(g) |-> [key |-> PeriodStr(g[k].key), amount |-> g[k].amount]]

\* the inputs are read one at a time: a rejected amount ends the operation before
\* anything else is asked for; the category typed before a rejected date is dropped
add_expense ==
    \E amount_in \in AmountInputs : \E amount \in {ParseFloat(Strip(amount_in))} :
        IF ~amount.ok
        THEN /\ out' = [Quiet EXCEPT !.op = "add_expense",
                            !.status = "invalid_amount", !.input = <<amount_in>>]
             /\ UNCHANGED <<ledger, sqlite_sequence>>
        ELSE \E date_in \in DateInputs : \E date_input \in {Strip(date_in)} :
                IF date_input # <<>> /\ ~valid_date_yyyy_mm_dd(date_input)
                THEN /\ out' = [Quiet EXCEPT !.op = "add_expense",
                                    !.status = "invalid_date", !.input = <<date_in>>]
                     /\ UNCHANGED <<ledger, sqlite_sequence>>
                ELSE \E category_in \in CategoryInputs,
                        description_in \in DescriptionInputs :
                    /\ Len(ledger) < MaxRecords
                    /\ \E category \in {IF Strip(category_in) = <<>> THEN Uncategorized
                                        ELSE Strip(category_in)},
                          date_str \in {IF date_input # <<>> THEN date_input
                                        ELSE Strftime(Today)} :
                        /\ ledger' = Insert(ledger, sqlite_sequence, amount.val,
                                            category, date_str, Strip(description_in))
                        /\ sqlite_sequence' = NextRowId(ledger, sqlite_sequence)
                        /\ out' = LET check == check_budget_alert_for_date(ledger',
                                                                           date_str)
                                  IN  [Quiet EXCEPT !.op = "add_expense",
                                           !.input = <<amount_in, category_in, date_in,
                                                       description_in>>,
                                           !.evaluated = check.evaluated,
                                           !.alert = check.alert]

AddExpense ==
    /\ running
    /\ add_expense
    /\ UNCHANGED <<running, canvas>>

view_all_expenses ==
    out' = LET df == fetch_all_df(ledger)
           IN  IF df = <<>>
               THEN [Quiet EXCEPT !.op = "view_all_expenses", !.status = "empty"]
               ELSE [Quiet EXCEPT !.op = "view_all_expenses", !.rows = df]

ViewAllExpenses ==
    /\ running
    /\ view_all_expenses
    /\ UNCHANGED <<ledger, sqlite_sequence, running, canvas>>

\* WHERE category = ? ORDER BY date DESC, id DESC
filter_by_category(category_in) ==
    out' = LET category == Strip(category_in)
               df == SelectSeq(fetch_all_df(ledger), LAMBDA r : r.category = category)
               said == [Quiet EXCEPT !.op = "filter_by_category",
                            !.input = <<category_in>>]
           IN  IF category = <<>> THEN [said EXCEPT !.status = "invalid_input"]
               ELSE IF df = <<>> THEN [said EXCEPT !.status = "empty"]
               ELSE [said EXCEPT !.rows = df]

FilterByCategory ==
    /\ running
    /\ \E c \in {<<" ">>, Food} : filter_by_category(c)
    /\ UNCHANGED <<ledger, sqlite_sequence, running, canvas>>

\* WHERE date = ? ORDER BY id DESC: the text typed against the text stored
filter_by_date(date_in) ==
    out' = LET date_str == Strip(date_in)
               df == SelectSeq(fetch_all_df(ledger), LAMBDA r : r.date = date_str)
               said == [Quiet EXCEPT !.op = "filter_by_date", !.input = <<date_in>>]
           IN  IF ~valid_date_yyyy_mm_dd(date_str)
               THEN [said EXCEPT !.status = "invalid_date"]
               ELSE IF df = <<>> THEN [said EXCEPT !.status = "empty"]
               ELSE [said EXCEPT !.rows = df]

FilterByDate ==
    /\ running
    /\ \E d \in {<<>>, <<"2", "0", "2", "3", "-", "1", "0", "-", "1">>} :
          filter_by_date(d)
    /\ UNCHANGED <<ledger, sqlite_sequence, running, canvas>>

\* Variant of monthly_summary that compares the month of the first row of the
\* snapshot with the budget
monthly_summary_first_row ==
    out' = LET df == fetch_all_df(ledger)
               summary == SummaryTable(df)
               shown == CHOOSE k \in 1..Len(summary) :
                            summary[k].key = PeriodStr(MonthOf(df[1]))
           IN  IF df = <<>>
               THEN [Quiet EXCEPT !.op = "monthly_summary", !.status = "empty"]
               ELSE [Quiet EXCEPT !.op = "monthly_summary", !.months = summary,
                         !.evaluated = TRUE,
                         !.alert = summary[shown].amount > MONTHLY_BUDGET]

monthly_summary ==
    out' = LET df == fetch_all_df(ledger)
               summary == SummaryTable(df)
               latest == summary[Len(summary)]
           IN  IF df = <<>>
               THEN [Quiet EXCEPT !.op = "monthly_summary", !.status = "empty"]
               ELSE [Quiet EXCEPT !.op = "monthly_summary", !.months = summary,
                         !.evaluated = TRUE,
                         !.alert = latest.amount > MONTHLY_BUDGET]

MonthlySummary ==
    /\ running
    /\ monthly_summary
    /\ UNCHANGED <<ledger, sqlite_sequence, running, canvas>>

show_pie_chart ==
    \E df \in {fetch_all_df(ledger)} :
        IF df = <<>>
        THEN out' = [Quiet EXCEPT !.op = "show_pie_chart", !.status = "empty"]
        ELSE \E cat_sum \in SortValuesDesc(GroupByCategory(df)) :
                out' = [Quiet EXCEPT !.op = "show_pie_chart", !.cats = cat_sum,
                            !.files = {"pie_png"}]

ShowPieChart ==
    /\ running
    /\ show_pie_chart
    /\ UNCHANGED <<ledger, sqlite_sequence, running, canvas>>

show_bar_chart ==
    out' = LET df == fetch_all_df(ledger)
           IN  IF df = <<>>
               THEN [Quiet EXCEPT !.op = "show_bar_chart", !.status = "empty"]
               ELSE [Quiet EXCEPT !.op = "show_bar_chart",
                         !.months = GroupByMonthStr(df), !.files = {"bar_png"}]

ShowBarChart ==
    /\ running
    /\ show_bar_chart
    /\ UNCHANGED <<ledger, sqlite_sequence, running, canvas>>

export_to_csv ==
    out' = LET df == fetch_all_df(ledger)
           IN  IF df = <<>>
               THEN [Quiet EXCEPT !.op = "export_to_csv", !.status = "empty"]
               ELSE [Quiet EXCEPT !.op = "export_to_csv", !.rows = df,
                         !.files = {"csv"}]

ExportToCsv ==
    /\ running
    /\ export_to_csv
    /\ UNCHANGED <<ledger, sqlite_sequence, running, canvas>>

\* Variant of export_to_pdf without the test for an empty snapshot
export_to_pdf_unchecked ==
    \E df \in {fetch_all_df(ledger)} :
        \E cat_break \in SortValuesDesc(GroupByCategory(df)) :
            out' = [Quiet EXCEPT !.op = "export_to_pdf",
                        !.total = SumAmount(df), !.cats = cat_break,
                        !.rows = df, !.composed = TRUE,
                        !.files = {"pie_png", "bar_png", "pdf"}]

\* the content of the report; its page layout is ComposePdf below
export_to_pdf ==
    \E df \in {fetch_all_df(ledger)} :
        IF df = <<>>
        THEN out' = [Quiet EXCEPT !.op = "export_to_pdf", !.status = "empty"]
        ELSE \E cat_break \in SortValuesDesc(GroupByCategory(df)) :
                out' = [Quiet EXCEPT !.op = "export_to_pdf",
                            !.total = SumAmount(df), !.cats = cat_break,
                            !.rows = df, !.composed = TRUE,
                            !.files = {"pie_png", "bar_png", "pdf"}]

ExportToPdf ==
    /\ running
    /\ export_to_pdf
    /\ UNCHANGED <<ledger, sqlite_sequence, running, canvas>>

InvalidChoice ==
    /\ running
    /\ out' = [Quiet EXCEPT !.op = "invalid_choice"]
    /\ UNCHANGED <<ledger, sqlite_sequence, running, canvas>>

Exit ==
    /\ running
    /\ running' = FALSE
    /\ out' = [Quiet EXCEPT !.op = "exit"]
    /\ UNCHANGED <<ledger, sqlite_sequence, canvas>>

\* main(): initialize_db() on a new database file, then the menu loop
Init ==
    /\ ledger = <<>>
    /\ sqlite_sequence = 0
    /\ running = TRUE
    /\ out = Quiet
    /\ canvas = <<>>

Next ==
    \/ AddExpense
    \/ ViewAllExpenses
    \/ FilterByCategory
    \/ FilterByDate
    \/ MonthlySummary
    \/ ShowPieChart
    \/ ShowBarChart
    \/ ExportToCsv
    \/ ExportToPdf
    \/ InvalidChoice
    \/ Exit

Spec == Init /\ [][Next]_vars

----------------------------------------------------------------------------
(* The page layout of export_to_pdf.  canvas is the sequence of things      *)
(* drawn, each with its page and the height y of the cursor it was drawn    *)
(* at.  The layout depends on the records only through their number and the *)
(* number of their categories, and on the charts through their pixel sizes. *)

Left == 50
TopMargin == 50
MaxImageHeight == 250
CategoryFloor == 120
ImageFloor == 80
DetailsFloor == 120
RowFloor == 60

\* (width, height) in pixels of a saved chart; NoImage where the file is missing
NoImage == <<0, 0>>

ImageSizes == { NoImage, <<560, 580>>, <<1024, 300>>, <<1024, 456>> }

NewCanvas == [ops |-> <<>>, page |-> 1, y |-> PageHeight - TopMargin]

\* c.drawString, c.drawImage, c.line at height y of the current page
DrawAt(c, kind, y) == [c EXCEPT !.ops = Append(@, [kind |-> kind, page |-> c.page, y |-> y])]

\* c.drawString at the cursor
Draw(c, kind) == DrawAt(c, kind, c.y)

Down(c, dy) == [c EXCEPT !.y = @ - dy]

\* c.showPage(); y = height - 50
ShowPage(c) == [c EXCEPT !.page = @ + 1, !.y = PageHeight - TopMargin]

\* the report header and the total
DrawHeader(c) ==
    Down(Draw(Down(Draw(Down(Draw(c, "title"), 22), "generated"), 18), "total"), 16)

\* one line per category, n of them left
RECURSIVE DrawCategories(_, _)
DrawCategories(c, n) ==
    IF n = 0 THEN c
    ELSE LET drawn == Down(Draw(c, "category"), 14)
         IN  IF drawn.y < CategoryFloor
             THEN DrawCategories(ShowPage(drawn), n - 1)
             ELSE DrawCategories(drawn, n - 1)

\* add_image(path, y_current)
add_image(c, size) ==
    IF size = NoImage THEN c
    ELSE LET max_w == PageWidth - 2 * Left
             h == Min((size[2] * max_w) \div size[1], MaxImageHeight)
             at == IF c.y - h < ImageFloor THEN ShowPage(c) ELSE c
         IN  Down(DrawAt(at, "image", at.y - h), h + 20)

\* the column header and, the cursor moved down, the rule 6 above the cursor
DrawColumns(c) ==
    LET below == Down(Draw(c, "columns"), 10) IN DrawAt(below, "rule", below.y + 6)

\* Variant of DrawRows that starts the new page without the column header
RECURSIVE DrawRowsBare(_, _)
DrawRowsBare(c, n) ==
    IF n = 0 THEN c
    ELSE LET drawn == Down(Draw(c, "row"), 12)
         IN  IF drawn.y < RowFloor
             THEN DrawRowsBare(ShowPage(drawn), n - 1)
             ELSE DrawRowsBare(drawn, n - 1)

\* one line per record, n of them left
RECURSIVE DrawRows(_, _)
DrawRows(c, n) ==
    IF n = 0 THEN c
    ELSE LET drawn == Down(Draw(c, "row"), 12)
         IN  IF drawn.y < RowFloor
             THEN DrawRows(DrawColumns(ShowPage(drawn)), n - 1)
             ELSE DrawRows(drawn, n - 1)

\* the details section
DrawDetails(c, nrows) ==
    LET at == IF c.y < DetailsFloor THEN ShowPage(c) ELSE c
    IN  DrawRows(DrawColumns(Down(Draw(at, "details"), 12)), nrows)

\* the whole document of export_to_pdf for ncats categories, the two charts and
\* nrows records
Compose(ncats, pie, bar, nrows) ==
    DrawDetails(
        add_image(
            add_image(
                DrawCategories(Down(Draw(DrawHeader(NewCanvas), "breakdown"), 14), ncats),
                pie),
            bar),
        nrows)

\* one export: the document is composed on a new canvas
ComposePdf ==
    /\ canvas = <<>>
    /\ \E nrows \in 1..MaxRows : \E ncats \in 1..Min(nrows, MaxCats) :
       \E pie \in ImageSizes, bar \in ImageSizes :
          canvas' = Compose(ncats, pie, bar, nrows).ops
    /\ UNCHANGED <<ledger, sqlite_sequence, running, out>>

NextPdf == ComposePdf

SpecPdf == Init /\ [][NextPdf]_vars

----------------------------------------------------------------------------
(* Properties.  What they say of a ledger is computed here from the rows of *)
(* the table, apart from the operators the operations use.                  *)

Rows == 1..Len(ledger)

\* the year and month a date text denotes, read off the text itself
YearMonth(date) == <<Strptime(date).y, Strptime(date).m>>

\* the calendar day a date text denotes, as one number
DayNumber(date) == (Strptime(date).y * 12 + Strptime(date).m) * 31 + Strptime(date).d

RECURSIVE TotalUpTo(_, _)
TotalUpTo(table, n) == IF n = 0 THEN 0 ELSE table[n].amount + TotalUpTo(table, n - 1)

\* the sum of all record amounts
LedgerTotal == TotalUpTo(ledger, Len(ledger))

RECURSIVE KeyedTotalUpTo(_, _)
KeyedTotalUpTo(g, n) == IF n = 0 THEN 0 ELSE g[n].amount + KeyedTotalUpTo(g, n - 1)

\* the sum of the totals of an aggregate
KeyedTotal(g) == KeyedTotalUpTo(g, Len(g))

RECURSIVE MonthTotalUpTo(_, _, _)
MonthTotalUpTo(table, ym, n) ==
    IF n = 0 THEN 0
    ELSE (IF YearMonth(table[n].date) = ym THEN table[n].amount ELSE 0)
            + MonthTotalUpTo(table, ym, n - 1)

\* the sum of the amounts of the records dated in year-month ym
MonthTotal(ym) == MonthTotalUpTo(ledger, ym, Len(ledger))

RECURSIVE CategoryTotalUpTo(_, _, _)
CategoryTotalUpTo(table, cat, n) ==
    IF n = 0 THEN 0
    ELSE (IF table[n].category = cat THEN table[n].amount ELSE 0)
            + CategoryTotalUpTo(table, cat, n - 1)

CategoryTotal(cat) == CategoryTotalUpTo(ledger, cat, Len(ledger))

Succeeded(op) == out.op = op /\ out.status = "ok"

\* every key of aggregate g occurs once in it
KeysOnce(g) == \A i \in 1..Len(g) : \A j \in 1..Len(g) : g[i].key = g[j].key => i = j

\* C1: on a non-empty ledger the per-category totals, the per-month totals (of the
\* summary and of the bar chart) and the record amounts have the same sum, every
\* record falling in exactly one category group and exactly one year-month group
C1_ConservationOfTotal ==
    ledger # <<>> =>
        LET df == fetch_all_df(ledger)
            by_cat == GroupByCategory(df)
            by_month == SummaryTable(df)
            by_month_str == GroupByMonthStr(df)
        IN  /\ KeyedTotal(by_cat) = LedgerTotal
            /\ KeyedTotal(by_month) = LedgerTotal
            /\ KeyedTotal(by_month_str) = LedgerTotal
            /\ SumAmount(df) = LedgerTotal
            /\ \A r \in Rows :
                /\ Cardinality({k \in 1..Len(by_cat) :
                                    by_cat[k].key = ledger[r].category}) = 1
                /\ Cardinality({k \in 1..Len(by_month) :
                                    by_month[k].key = PeriodStr(YearMonth(ledger[r].date))}) = 1
                /\ Cardinality({k \in 1..Len(by_month_str) :
                                    by_month_str[k].key = PeriodStr(YearMonth(ledger[r].date))}) = 1
            /\ Succeeded("export_to_pdf") =>
                    out.total = LedgerTotal /\ KeyedTotal(out.cats) = LedgerTotal
            /\ Succeeded("show_pie_chart") => KeyedTotal(out.cats) = LedgerTotal
            /\ Succeeded("monthly_summary") => KeyedTotal(out.months) = LedgerTotal
            /\ Succeeded("show_bar_chart") => KeyedTotal(out.months) = LedgerTotal

\* a report over two records of different categories and different months
C1_Witness ==
    /\ Succeeded("export_to_pdf")
    /\ Len(ledger) = 2
    /\ Len(out.cats) = 2
    /\ YearMonth(ledger[1].date) # YearMonth(ledger[2].date)
    /\ out.total = ledger[1].amount + ledger[2].amount

\* C2: after a successful Add Expense the alert is raised exactly when the amounts
\* of the records dated in the new record's year-month sum to more than
\* MONTHLY_BUDGET
C2_AlertOnAdd ==
    Succeeded("add_expense") =>
        /\ ledger # <<>>
        /\ out.evaluated
        /\ out.alert <=> MonthTotal(YearMonth(ledger[Len(ledger)].date)) > MONTHLY_BUDGET

\* the new record brings its month to exactly the budget and no alert is raised
C2_Witness ==
    /\ Succeeded("add_expense")
    /\ Len(ledger) = 2
    /\ YearMonth(ledger[1].date) = YearMonth(ledger[2].date)
    /\ MonthTotal(YearMonth(ledger[2].date)) = MONTHLY_BUDGET
    /\ ~out.alert

\* the latest year-month a record of the ledger is dated in
LatestYearMonth ==
    CHOOSE ym \in {YearMonth(ledger[r].date) : r \in Rows} :
        \A r \in Rows : ~PeriodLess(ym, YearMonth(ledger[r].date))

\* C3: Monthly Summary on a non-empty ledger lists the months of the ledger, each
\* once, in ascending order, and raises the alert exactly when the total of the
\* latest month is more than MONTHLY_BUDGET
C3_SummaryAlert ==
    Succeeded("monthly_summary") =>
        /\ ledger # <<>>
        /\ {out.months[k].key : k \in 1..Len(out.months)}
                = {PeriodStr(YearMonth(ledger[r].date)) : r \in Rows}
        /\ \A k \in 1..(Len(out.months) - 1) :
                LexLess(out.months[k].key, out.months[k + 1].key)
        /\ \A k \in 1..Len(out.months) :
                \A r \in Rows :
                    PeriodStr(YearMonth(ledger[r].date)) = out.months[k].key
                        => out.months[k].amount = MonthTotal(YearMonth(ledger[r].date))
        /\ out.evaluated
        /\ out.alert <=> MonthTotal(LatestYearMonth) > MONTHLY_BUDGET

\* the later month was entered first and is within the budget, the earlier month is
\* over it, and no alert is raised
C3_Witness ==
    /\ Succeeded("monthly_summary")
    /\ Len(ledger) = 2
    /\ PeriodLess(YearMonth(ledger[2].date), YearMonth(ledger[1].date))
    /\ MonthTotal(YearMonth(ledger[2].date)) > MONTHLY_BUDGET
    /\ ~out.alert

\* C4: an Add Expense whose amount is not a number, or whose date is neither blank
\* nor a valid date, is rejected: the ledger is left as it was and the budget alert
\* is not evaluated; an Add Expense that goes through had a number for its amount
\* and a blank or valid date
C4_RejectedAdd ==
    [][out'.op = "add_expense" =>
        /\ out'.status \in {"ok", "invalid_amount", "invalid_date"}
        /\ out'.status = "ok" =>
                /\ ParseFloat(Strip(out'.input[1])).ok
                /\ Strip(out'.input[3]) = <<>> \/ Strptime(Strip(out'.input[3])).ok
        /\ out'.status = "invalid_amount" => ~ParseFloat(Strip(out'.input[1])).ok
        /\ out'.status = "invalid_date" =>
                /\ Strip(out'.input[1]) # <<>>
                /\ ~Strptime(Strip(out'.input[1])).ok
        /\ out'.status # "ok" =>
                /\ ledger' = ledger
                /\ sqlite_sequence' = sqlite_sequence
                /\ ~out'.evaluated
                /\ ~out'.alert]_vars

\* a date that is no calendar day was typed with a record in the ledger
C4_Witness ==
    /\ out.op = "add_expense"
    /\ out.status = "invalid_date"
    /\ Len(ledger) = 1

\* C5: the ledger only grows: ids are unique, an operation leaves every record as
\* it was, only a successful Add Expense adds a record, one at a time, and the id
\* of the new record is greater than every id in the ledger before
C5_AppendOnly ==
    /\ [](\A i \in Rows : \A j \in Rows : ledger[i].id = ledger[j].id => i = j)
    /\ [][/\ Len(ledger') \in {Len(ledger), Len(ledger) + 1}
          /\ SubSeq(ledger', 1, Len(ledger)) = ledger
          /\ Len(ledger') = Len(ledger) + 1 =>
                /\ out'.op = "add_expense" /\ out'.status = "ok"
                /\ \A i \in Rows : ledger'[Len(ledger')].id > ledger[i].id
          /\ out'.op # "add_expense" => ledger' = ledger]_vars

\* a second record has been added
C5_Witness ==
    /\ Succeeded("add_expense")
    /\ Len(ledger) = 2
    /\ ledger[2].id > ledger[1].id

ReportingOps ==
    {"monthly_summary", "show_pie_chart", "show_bar_chart", "export_to_csv",
     "export_to_pdf"}

\* C6: on an empty ledger Monthly Summary, the two charts and the two exports stop
\* with a notice: no alert is evaluated, nothing is aggregated, no file is produced
\* and the PDF is not composed; a PDF that is composed has at least one record
C6_EmptyLedger ==
    /\ (ledger = <<>> /\ out.op \in ReportingOps) =>
            /\ out.status = "empty"
            /\ ~out.evaluated
            /\ ~out.alert
            /\ out.files = {}
            /\ ~out.composed
            /\ out.rows = <<>> /\ out.months = <<>> /\ out.cats = <<>>
    /\ out.composed => out.rows # <<>>

\* Export PDF was asked for on the empty ledger
C6_Witness ==
    /\ ledger = <<>>
    /\ out.op = "export_to_pdf"
    /\ out.status = "empty"

\* the categories of the breakdown are the category texts of the ledger, each once,
\* each with the sum of its records
ExactBreakdown(cats) ==
    /\ {cats[k].key : k \in 1..Len(cats)} = {ledger[r].category : r \in Rows}
    /\ KeysOnce(cats)
    /\ \A k \in 1..Len(cats) : cats[k].amount = CategoryTotal(cats[k].key)

\* where the first record of a category stands in the snapshot
FirstSeen(df, cat) == CHOOSE i \in 1..Len(df) :
    df[i].category = cat /\ \A j \in 1..(i - 1) : df[j].category # cat

C8_CalendarOrder ==
    (Succeeded("view_all_expenses") \/ Succeeded("export_to_csv")
        \/ Succeeded("export_to_pdf")) =>
        /\ Len(out.rows) = Len(ledger)
        /\ {out.rows[i] : i \in 1..Len(out.rows)} = {ledger[r] : r \in Rows}
        /\ \A i \in 1..(Len(out.rows) - 1) :
                \/ DayNumber(out.rows[i].date) > DayNumber(out.rows[i + 1].date)
                \/ /\ DayNumber(out.rows[i].date) = DayNumber(out.rows[i + 1].date)
                   /\ out.rows[i].id > out.rows[i + 1].id

\* C9: no record has an amount below zero
C9_NonNegativeAmounts == \A r \in Rows : ledger[r].amount >= 0

Drawn == 1..Len(canvas)

\* the rows among canvas[i..] stand at or above RowFloor on a page on which the
\* column header, and the rule after it, were drawn before them; header and rule
\* are the pages of the last column header and of the last rule following a column
\* header of its page (0: none yet)
RECURSIVE RowsHeaded(_, _, _)
RowsHeaded(i, header, rule) ==
    IF i > Len(canvas) THEN TRUE
    ELSE IF canvas[i].kind = "columns" THEN RowsHeaded(i + 1, canvas[i].page, rule)
    ELSE IF canvas[i].kind = "rule"
         THEN RowsHeaded(i + 1, header,
                         IF header = canvas[i].page THEN canvas[i].page ELSE rule)
    ELSE IF canvas[i].kind = "row"
         THEN /\ canvas[i].y >= RowFloor
              /\ header = canvas[i].page
              /\ rule = canvas[i].page
              /\ RowsHeaded(i + 1, header, rule)
    ELSE RowsHeaded(i + 1, header, rule)

\* C10: every detail row of the PDF is drawn at or above RowFloor, on a page on
\* which the column header and then the rule were drawn before it; a row after
\* which the cursor is below RowFloor is followed by a new page with the column
\* header and the rule at its top, any other row by the next row 12 lower
C10_RowsUnderHeader ==
    /\ RowsHeaded(1, 0, 0)
    /\ \A i \in Drawn : canvas[i].kind = "row" =>
        /\ canvas[i].y - 12 < RowFloor =>
                /\ i + 2 <= Len(canvas)
                /\ canvas[i + 1].kind = "columns"
                /\ canvas[i + 1].page = canvas[i].page + 1
                /\ canvas[i + 1].y = PageHeight - TopMargin
                /\ canvas[i + 2].kind = "rule"
                /\ canvas[i + 2].page = canvas[i].page + 1
                /\ canvas[i + 2].y < canvas[i + 1].y
        /\ (canvas[i].y - 12 >= RowFloor /\ i < Len(canvas)) =>
                /\ canvas[i + 1].kind = "row"
                /\ canvas[i + 1].page = canvas[i].page
                /\ canvas[i + 1].y = canvas[i].y - 12

\* the detail rows run over a page break: a row is the last of its page and the
\* next row stands on the following page
C10_Witness ==
    \E i \in 1..(Len(canvas) - 3) :
        /\ canvas[i].kind = "row" /\ canvas[i + 3].kind = "row"
        /\ canvas[i + 3].page = canvas[i].page + 1
        /\ canvas[i].y - 12 < RowFloor

====
